---- MODULE Spec2Model ----
(***************************************************************************)
(* A model of three back ends of edalize (byuccl fork):                    *)
(*   - the F4pga flow            (src/edalize/flows/f4pga.py)              *)
(*   - the Symbiflow tool        (src/edalize/symbiflow.py)                *)
(*   - the Ise tool              (src/edalize/ise.py)                      *)
(* Each back end has a specification of its own (SpecF4pga, SpecSymbiflow, *)
(* SpecIse) over the shared variables; the variables of the other back     *)
(* ends keep their initial values.                                         *)
(*                                                                         *)
(* Python values: a str that the code only compares is a TLA+ string; a    *)
(* str that the code searches or concatenates (part, package) is a tuple   *)
(* of one-character strings; a dict is a function whose DOMAIN is the set  *)
(* of keys present; a list is a sequence.                                  *)
(***************************************************************************)
EXTENDS Integers, Sequences, FiniteSets, TLC

VARIABLES
    FLOW,       \* F4pga.FLOW, the class attribute shared by every F4pga object
    builds,     \* one record per F4pga(...) call made so far in this process
    sym,        \* the last Symbiflow.configure_main call: its job and result
    pc,         \* Ise.configure_main: the statement it is at
    ise,        \* Ise.configure_main: the job being configured
    disk,       \* Ise: content of each file of the work root
    buf,        \* Ise: lines written to the open file and not yet on disk
    prev,       \* Ise: the work root as it was when configure_main was called
    idx         \* Ise._write_tcl_file: position in src_files

vars == <<FLOW, builds, sym, pc, ise, disk, buf, prev, idx>>

f4pgaVars == <<FLOW, builds>>
symVars == <<sym>>
iseVars == <<pc, ise, disk, buf, prev, idx>>

\* Python's None, where it is stored next to tuples.
None == <<"None">>

\* dict.update done the other way round: a key already in a keeps its value.
UpdateKeepsExisting(a, b) ==
    [k \in DOMAIN a \cup DOMAIN b |-> IF k \in DOMAIN a THEN a[k] ELSE b[k]]

\* dict.update: keys of b overwrite keys of a.
Update(a, b) ==
    [k \in DOMAIN a \cup DOMAIN b |-> IF k \in DOMAIN b THEN b[k] ELSE a[k]]

\* All dicts over a subset of keys, the value of key k drawn from vals[k].
Dicts(keys, vals) ==
    UNION {{f \in [D -> UNION {vals[k] : k \in keys}] : \A k \in D : f[k] \in vals[k]}
           : D \in SUBSET keys}

(***************************************************************************)
(* F4pga                                                                   *)
(***************************************************************************)

\* How many F4pga objects one process constructs.
MaxBuilds == 2

get_synth_node(pnr_tool) ==
    IF pnr_tool = "vpr" THEN
        <<"yosys", <<pnr_tool>>,
          [output_format |-> "eblif",
           yosys_template |-> "${F4PGA_ENV_SHARE}/scripts/xc7/synth.tcl",
           split_io |-> <<"${F4PGA_ENV_SHARE}/scripts/split_inouts.py",
                          "${OUT_JSON}", "${SYNTH_JSON}",
                          "${F4PGA_ENV_SHARE}/scripts/xc7/conv.tcl">>]>>
    ELSE IF pnr_tool = "nextpnr" THEN
        <<"yosys", <<pnr_tool>>, [output_format |-> "json"]>>
    ELSE None

get_pnr_node(pnr_tool) ==
    IF pnr_tool = "vpr" THEN
        <<"vpr", <<>>,
          [arch_xml |-> "${F4PGA_ENV_SHARE}/arch/${DEVICE_NAME}/arch.timing.xml",
           input_type |-> "eblif",
           vpr_options |-> <<"${VPR_OPTIONS}", "--read_rr_graph ${RR_GRAPH}",
                             "--read_router_lookahead ${LOOKAHEAD}",
                             "--read_placement_delay_lookup ${PLACE_DELAY}">>,
           gen_constraints |->
               << <<"${PYTHON}", "${IOGEN}", "--blif ${OUT_EBLIF}",
                    "--map ${PINMAP_FILE}", "--net ${NET_FILE}",
                    "> ${IOPLACE_FILE}">>,
                  <<"${PYTHON}", "${CONSTR_GEN}", "--net ${NET_FILE}",
                    "--arch ${ARCH_DEF}", "--blif ${OUT_EBLIF}",
                    "--vpr_grid_map ${VPR_GRID_MAP}", "--input ${IOPLACE_FILE}",
                    "--db_root ${DATABASE_DIR} --part ${PART}",
                    "> ${CONSTR_FILE}">>,
                  "${IOPLACE_FILE}", "${CONSTR_FILE}" >>]>>
    ELSE IF pnr_tool = "nextpnr" THEN
        <<"nextpnr", <<>>, [nextpnr_options |-> <<>>]>>
    ELSE None

\* The board database read by load_db: a snapshot with two boards.
board_db ==
    [basys3 |-> [arch |-> "xilinx", device_type |-> "artix7",
                 device_name |-> "xc7a50t_test", part |-> "xc7a35tcpg236-1"],
     zybo   |-> [arch |-> "xilinx", device_type |-> "zynq7",
                 device_name |-> "xc7z010_test", part |-> "xc7z010clg400-1"]]

\* The flow_options a caller may put in the edam.
FlowOptionKeys == {"pnr", "board", "part"}

FlowOptionValues ==
    [pnr   |-> {"vpr", "nextpnr", "quartus"},
     board |-> {"basys3", "zybo", "nexys4"},
     part  |-> {"xc7a35tcpg236-1", "xc7a100tcsg324-1"}]

Edams == Dicts(FlowOptionKeys, FlowOptionValues)

\* flow_options.get("pnr", "vpr")
PnrTool(flow_options) ==
    IF "pnr" \in DOMAIN flow_options THEN flow_options["pnr"] ELSE "vpr"

\* Lines 119-120: the two appends to the class attribute.
AppendStages(flow, pnr_tool) ==
    Append(Append(flow, get_synth_node(pnr_tool)), get_pnr_node(pnr_tool))

\* Lines 126-134: the board checks and the merge of the board's entry.
\* "RuntimeError" is the raise of line 127 or 131; "Edaflow.__init__" means
\* the checks passed and line 137 hands over to the base class.
BoardOutcome(flow_options) ==
    IF "board" \notin DOMAIN flow_options THEN "RuntimeError"
    ELSE IF flow_options["board"] \notin DOMAIN board_db THEN "RuntimeError"
    ELSE "Edaflow.__init__"

ResolveOptions(flow_options) ==
    IF BoardOutcome(flow_options) = "RuntimeError" THEN flow_options
    ELSE Update(flow_options, board_db[flow_options["board"]])

\* F4pga.__init__(edam, ...): flow_options is the caller's mapping (line 113
\* hands out the object that is in the edam), so what line 134 merges into it
\* is what the caller's edam holds after the call: edam_after.
F4pgaInit(flow_options) ==
    /\ Len(builds) < MaxBuilds
    /\ LET pnr_tool == PnrTool(flow_options)
           flow == AppendStages(FLOW, pnr_tool)
       IN  /\ FLOW' = flow
           /\ builds' = Append(builds,
                  [edam         |-> flow_options,
                   pnr_tool     |-> pnr_tool,
                   flow_before  |-> FLOW,
                   flow         |-> flow,
                   outcome      |-> BoardOutcome(flow_options),
                   flow_options |-> ResolveOptions(flow_options),
                   edam_after   |-> ResolveOptions(flow_options)])
    /\ UNCHANGED <<symVars, iseVars>>

NextF4pga == \E flow_options \in Edams : F4pgaInit(flow_options)

\* edam["name"] and edam["toplevel"] of every F4pga job.
F4pgaName == "design"
F4pgaTop == "top"

\* configure_tools, lines 157-232: the add_env_var calls in order, as
\* <<name, value>>; f"{x}.ext" is <<x, ".ext">>.
F4pgaEnvVars(pnr_tool, flow_options) ==
    << <<"NET_FILE", <<F4pgaName, ".net">> >>,
       <<"ANALYSIS_FILE", <<F4pgaName, ".analysis">> >>,
       <<"FASM_FILE", IF pnr_tool = "vpr" THEN <<F4pgaTop, ".fasm">>
                                          ELSE <<F4pgaName, ".fasm">> >>,
       <<"BITSTREAM_FILE", <<F4pgaName, ".bit">> >>,
       <<"DEVICE_TYPE", flow_options["device_type"]>>,
       <<"DEVICE_NAME", flow_options["device_name"]>>,
       <<"DEVICE_NAME_MODIFIED", "$(shell echo ${DEVICE_NAME} | sed -n 's/_/-/p')">>,
       <<"PART", flow_options["part"]>>,
       <<"BOARD", flow_options["board"]>>,
       <<"TOP", F4pgaTop>>,
       <<"INPUT_XDC_FILES", "">>,
       <<"PYTHON", "python3">>,
       <<"USE_ROI", "\"FALSE\"">>,
       <<"TECHMAP_PATH", "${F4PGA_ENV_SHARE}/techmaps/xc7_vpr/techmap">>,
       <<"DATABASE_DIR", "$(shell prjxray-config)">>,
       <<"PART_JSON", "${DATABASE_DIR}/${DEVICE_TYPE}/${PART}/part.json">>,
       <<"OUT_FASM_EXTRA", <<F4pgaName, "_fasm_extra.fasm">> >>,
       <<"OUT_SDC", <<F4pgaName, ".sdc">> >>,
       <<"OUT_SYNTH_V", <<F4pgaName, "_synth.v">> >>,
       <<"OUT_JSON", <<F4pgaName, ".json">> >>,
       <<"PYTHON3", "$(shell which python3)">>,
       <<"UTILS_PATH", "${F4PGA_ENV_SHARE}/scripts">>,
       <<"SYNTH_JSON", <<F4pgaName, "_io.json">> >>,
       <<"OUT_EBLIF", <<F4pgaName, ".eblif">> >>,
       <<"ARCH_DIR", "${F4PGA_ENV_SHARE}/arch/${DEVICE_NAME}">>,
       <<"RR_GRAPH", "${ARCH_DIR}/rr_graph_${DEVICE_NAME}.rr_graph.real.bin">>,
       <<"LOOKAHEAD", "${ARCH_DIR}/rr_graph_${DEVICE_NAME}.lookahead.bin">>,
       <<"PLACE_DELAY", "${ARCH_DIR}/rr_graph_${DEVICE_NAME}.place_delay.bin">>,
       <<"ARCH_DEF", "${ARCH_DIR}/arch.timing.xml">>,
       <<"DBROOT", "${DATABASE_DIR}/${DEVICE_TYPE}">>,
       <<"IOGEN", "${F4PGA_ENV_SHARE}/scripts/prjxray_create_ioplace.py">>,
       <<"CONSTR_GEN", "${F4PGA_ENV_SHARE}/scripts/prjxray_create_place_constraints.py">>,
       <<"CONSTR_FILE", "constraints.place">>,
       <<"PINMAP_FILE", "${ARCH_DIR}/${PART}/pinmap.csv">>,
       <<"VPR_GRID_MAP", "${ARCH_DIR}/vpr_grid_map.csv">>,
       <<"IOPLACE_FILE", <<F4pgaName, ".ioplace">> >>,
       <<"OUT_NOISY_WARNINGS", "noisy_warnings-${DEVICE_NAME}_fasm.log">>,
       <<"VPR_OPTIONS", "--disp on ... --suppress_warnings ${OUT_NOISY_WARNINGS},...">> >>

\* configure_tools, lines 234-244: the rules it adds, as
\* [command, targets, depends].
F4pgaRules(pnr_tool) ==
    (IF pnr_tool = "vpr"
        THEN << [command |-> <<"genfasm", "${ARCH_DEF}", "${OUT_EBLIF}",
                               "--device ${DEVICE_NAME_MODIFIED}", "${VPR_OPTIONS}",
                               "--read_rr_graph ${RR_GRAPH}">>,
                 targets |-> <<"${FASM_FILE}">>,
                 depends |-> <<"${ANALYSIS_FILE}">>] >>
        ELSE <<>>)
    \o << [command |-> <<"xcfasm", "--db-root ${DBROOT}", "--part ${PART}",
                         "--part_file ${DBROOT}/${PART}/part.yaml",
                         "--sparse --emit_pudc_b_pullup", "--fn_in ${FASM_FILE}",
                         "--bit_out ${BITSTREAM_FILE}", "${FRM2BIT}">>,
            targets |-> <<"${BITSTREAM_FILE}">>,
            depends |-> <<"${FASM_FILE}">>] >>

\* Line 150 of configure_tools: set_default_target.
F4pgaDefaultTarget == "${BITSTREAM_FILE}"

\* A run rule that waits for the bitstream itself.
F4pgaRunRuleAfterBitstream ==
    [command |-> <<"openFPGALoader", "-b", "${BOARD}", "${BITSTREAM_FILE}">>,
     targets |-> <<"run">>,
     depends |-> <<"${BITSTREAM_FILE}">>]

\* F4pga.set_run_command, lines 246-247.
F4pgaRunRule ==
    [command |-> <<"openFPGALoader", "-b", "${BOARD}", "${BITSTREAM_FILE}">>,
     targets |-> <<"run">>,
     depends |-> <<"pre_run">>]

\* What one build hands to the script writer: the stage chain it walks
\* (F4pga.FLOW as the build finds it), the bindings, the rules and the
\* default target of configure_tools, and the rule of set_run_command.
F4pgaScript(b) ==
    [chain |-> b.flow,
     env_vars |-> F4pgaEnvVars(b.pnr_tool, b.flow_options),
     rules |-> F4pgaRules(b.pnr_tool),
     default_target |-> F4pgaDefaultTarget,
     run |-> F4pgaRunRule]

(***************************************************************************)
(* Symbiflow                                                               *)
(***************************************************************************)

\* str literals that the code searches for or concatenates.
s_xc7 == <<"x", "c", "7">>
s_xc7a == <<"x", "c", "7", "a">>
s_xc7z == <<"x", "c", "7", "z">>
s_xc7k == <<"x", "c", "7", "k">>
s_xc7a35t == <<"x", "c", "7", "a", "3", "5", "t">>
s_xc7a50t == <<"x", "c", "7", "a", "5", "0", "t">>
s_xc7z010 == <<"x", "c", "7", "z", "0", "1", "0">>
s_xc6slx9 == <<"x", "c", "6", "s", "l", "x", "9">>
s_ql == <<"q", "l">>
s_artix7 == <<"a", "r", "t", "i", "x", "7">>
s_zynq7 == <<"z", "y", "n", "q", "7">>
s_kintex7 == <<"k", "i", "n", "t", "e", "x", "7">>
s_test == <<"t", "e", "s", "t">>
s_wlcsp == <<"w", "l", "c", "s", "p">>
s_underscore == <<"_">>
s_csg324_1 == <<"c", "s", "g", "3", "2", "4", "-", "1">>
s_empty == <<>>

\* "sub in s" for str
Contains(sub, s) ==
    \E i \in 0..(Len(s) - Len(sub)) : SubSeq(s, i + 1, i + Len(sub)) = sub

\* s.split(ch)[0]
RECURSIVE SplitFirst(_, _)
SplitFirst(s, ch) ==
    IF s = <<>> \/ Head(s) = ch THEN <<>>
    ELSE <<Head(s)>> \o SplitFirst(Tail(s), ch)

\* Symbiflow.archs and Symbiflow.fpga_interchange_families
archs == {"xilinx", "fpga_interchange"}
fpga_interchange_families == <<s_xc7>>

\* "not d.get(k)": the key is absent (None) or its value is the empty str.
Falsy(d, k) == k \notin DOMAIN d \/ d[k] = s_empty

\* d.get(k) == v for a str v
Is(d, k, v) == k \in DOMAIN d /\ d[k] = v

\* The tool_options a job may carry.
ToolOptionKeys == {"pnr", "arch", "vendor", "part", "package"}

ToolOptionValues ==
    [pnr     |-> {"nextpnr", "vtr", "vpr", "quartus"},
     arch    |-> {"xilinx", "fpga_interchange", "ice40"},
     vendor  |-> {"xilinx", "quicklogic", "lattice"},
     part    |-> {s_xc7a35t, s_xc7z010, s_xc6slx9, s_ql},
     package |-> {s_csg324_1}]

SymToolOptions ==
    UNION {{[k \in D |-> g[k]] : g \in [pnr : ToolOptionValues.pnr,
                                       arch : ToolOptionValues.arch,
                                       vendor : ToolOptionValues.vendor,
                                       part : ToolOptionValues.part,
                                       package : ToolOptionValues.package]}
           : D \in SUBSET ToolOptionKeys}

\* The files a job may list, in this order; a job lists any of them.
FileCatalogue ==
    <<[name |-> "top.v", file_type |-> "verilogSource"],
      [name |-> "chip.bba", file_type |-> "bba"],
      [name |-> "chip.device", file_type |-> "device"],
      [name |-> "pins.xdc", file_type |-> "xdc"],
      [name |-> "clk.sdc", file_type |-> "SDC"],
      [name |-> "pins.pcf", file_type |-> "PCF"]>>

RECURSIVE Pick(_, _, _)
Pick(cat, chosen, i) ==
    IF i > Len(cat) THEN <<>>
    ELSE (IF i \in chosen THEN <<cat[i]>> ELSE <<>>) \o Pick(cat, chosen, i + 1)

SymFileLists == {Pick(FileCatalogue, c, 1) : c \in SUBSET (1..Len(FileCatalogue))}

\* [f.name for f in src_files if f.file_type in types]
RECURSIVE NamesOfType(_, _)
NamesOfType(files, types) ==
    IF files = <<>> THEN <<>>
    ELSE (IF Head(files).file_type \in types THEN <<Head(files).name>> ELSE <<>>)
         \o NamesOfType(Tail(files), types)

\* Lines 172-177 and 280-285: the three independent "if ... in part" tests,
\* the last one that matches wins; dflt is the value before them.
BitstreamDevice(part, dflt) ==
    IF Contains(s_xc7k, part) THEN s_kintex7
    ELSE IF Contains(s_xc7z, part) THEN s_zynq7
    ELSE IF Contains(s_xc7a, part) THEN s_artix7
    ELSE dflt

SymResult(outcome, reached_write, yosys_configured, errors, bitstream_device, partname) ==
    [outcome |-> outcome, reached_write |-> reached_write,
     yosys_configured |-> yosys_configured, errors |-> errors,
     bitstream_device |-> bitstream_device, partname |-> partname]

\* Lines 123-165 of configure_nextpnr: what logger.error reports; each entry
\* is logged and the method goes on.
NextpnrErrors(tool_options, src_files, upto) ==
    LET part_ok == "part" \in DOMAIN tool_options
        no_family == part_ok /\ ~\E i \in 1..Len(fpga_interchange_families) :
                        Contains(fpga_interchange_families[i], tool_options["part"])
        fi == Is(tool_options, "arch", "fpga_interchange")
    IN  (IF "arch" \notin DOMAIN tool_options \/ tool_options["arch"] \notin archs
            THEN <<"arch">> ELSE <<>>)
        \o (IF Falsy(tool_options, "package") THEN <<"package">> ELSE <<>>)
        \o (IF Falsy(tool_options, "part") THEN <<"part">> ELSE <<>>)
        \o (IF upto = "part" THEN <<>> ELSE
              (IF no_family /\ fi THEN <<"family">> ELSE <<>>)
              \o (IF NamesOfType(src_files, {"bba"}) = <<>> THEN <<"chipdb">> ELSE <<>>)
              \o (IF NamesOfType(src_files, {"xdc"}) = <<>> THEN <<"xdc">> ELSE <<>>)
              \o (IF NamesOfType(src_files, {"device"}) = <<>> /\ fi
                     THEN <<"device">> ELSE <<>>))

\* Symbiflow.configure_nextpnr. yosys.configure() (line 114) runs before any
\* check. The exceptions are those Python raises on None: "family in part"
\* (line 133), "part + package" (line 168), "nextpnr-" + arch (line 226), and
\* the read of bitstream_device when no test of lines 172-177 bound it (237).
configure_nextpnr(tool_options, src_files) ==
    LET all == NextpnrErrors(tool_options, src_files, "end")
    IN  IF "part" \notin DOMAIN tool_options
        THEN SymResult("TypeError", FALSE, TRUE,
                       NextpnrErrors(tool_options, src_files, "part"), None, None)
        ELSE IF "package" \notin DOMAIN tool_options
        THEN SymResult("TypeError", FALSE, TRUE, all, None, None)
        ELSE LET part == tool_options["part"]
                 partname == part \o tool_options["package"]
                 bitstream_device == BitstreamDevice(part, None)
             IN  IF "arch" \notin DOMAIN tool_options
                 THEN SymResult("TypeError", FALSE, TRUE, all, bitstream_device, partname)
                 ELSE IF bitstream_device = None
                 THEN SymResult("UnboundLocalError", FALSE, TRUE, all, None, partname)
                 ELSE SymResult("returned", TRUE, TRUE, all, bitstream_device, partname)

\* Lines 253-277 of configure_vpr: what logger.error reports.
VprErrors(tool_options, src_files) ==
    (IF NamesOfType(src_files, {"vhdlSource", "vhdlSource-2008"}) # <<>>
        THEN <<"vhdl">> ELSE <<>>)
    \o (IF Falsy(tool_options, "part") THEN <<"part">> ELSE <<>>)
    \o (IF Falsy(tool_options, "package") THEN <<"package">> ELSE <<>>)

\* Symbiflow.configure_vpr. The exceptions are those Python raises on None:
\* '"xc7a" in part' (line 280), "part + package" (287), 'part + "_"' (297, 310).
\* With vendor quicklogic partname is the package as it is, None included.
configure_vpr(tool_options, src_files) ==
    LET errs == VprErrors(tool_options, src_files)
    IN  IF "part" \notin DOMAIN tool_options
        THEN SymResult("TypeError", FALSE, FALSE, errs, s_empty, s_empty)
        ELSE LET part == tool_options["part"]
             IN  IF Is(tool_options, "vendor", "xilinx")
                 THEN IF "package" \notin DOMAIN tool_options
                      THEN SymResult("TypeError", FALSE, FALSE, errs,
                                     BitstreamDevice(part, s_empty), s_empty)
                      ELSE SymResult("returned", TRUE, FALSE, errs,
                                     BitstreamDevice(part, s_empty),
                                     part \o tool_options["package"])
                 ELSE IF Is(tool_options, "vendor", "quicklogic")
                 THEN SymResult("returned", TRUE, FALSE, errs,
                                part \o s_underscore \o s_wlcsp,
                                IF "package" \in DOMAIN tool_options
                                    THEN tool_options["package"] ELSE None)
                 ELSE SymResult("returned", TRUE, FALSE, errs, s_empty, s_empty)

\* The name and the toplevel of the job a Symbiflow object is built from.
SymName == "design"
SymToplevel == "top"

\* A str of the script is the tuple of the pieces it is concatenated from;
\* W(s) is the str made of the one piece s.
W(s) == <<s>>

\* ' '.join(names)
RECURSIVE Join(_, _)
Join(names, sep) ==
    IF names = <<>> THEN <<>>
    ELSE IF Len(names) = 1 THEN <<names[1]>>
    ELSE <<names[1], sep>> \o Join(Tail(names), sep)

\* EdaCommands.get_make_var(name): the reference the script text carries.
get_make_var(name) == <<"$(", name, ")">>

\* text starts with what a get_make_var call returned.
IsReferenceAt(text) == Len(text) >= 3 /\ text[1] = "$(" /\ text[3] = ")"

\* EdaCommands(): nothing bound, no rule, no default target.
EdaCommands ==
    [header |-> <<>>, make_vars |-> <<>>, env_vars |-> <<>>,
     commands |-> <<>>, default_target |-> None]

\* One add_make_var / add_env_var call, and one commands.add call.
Binding(name, value) == [name |-> name, value |-> value]
Rule(command, targets, depends) ==
    [command |-> command, targets |-> targets, depends |-> depends]

\* A part that is never renamed.
VprPartAsGiven(tool_options) == tool_options["part"]

\* Lines 279-297 of configure_vpr: the part and the device suffix after the
\* vendor branches ("xc7a35t" is renamed for vendor xilinx only).
VprPart(tool_options) ==
    IF Is(tool_options, "vendor", "xilinx") /\ tool_options["part"] = s_xc7a35t
    THEN s_xc7a50t ELSE tool_options["part"]

VprDeviceSuffix(tool_options) ==
    IF Is(tool_options, "vendor", "xilinx") THEN s_test
    ELSE IF Is(tool_options, "vendor", "quicklogic") THEN s_wlcsp
    ELSE s_empty

\* Bindings that give F4PGA_SYNTH_TCL_PATH before the F4PGA_UTILS_PATH it
\* is made from.
VprMakeVarsPathFirst(tool_options, src_files) ==
    << Binding("F4PGA_SYNTH_TCL_PATH",
               get_make_var("F4PGA_UTILS_PATH") \o W("${FPGA_FAM}/synth.tcl")),
       Binding("F4PGA_UTILS_PATH",
               W("${INSTALL_DIR}/${FPGA_FAM}/install/share/symbiflow/scripts/")) >>

\* Lines 302-346: the add_make_var calls of configure_vpr, in call order.
VprMakeVars(tool_options, src_files) ==
    LET r == configure_vpr(tool_options, src_files)
        top == SymToplevel
    IN  << Binding("F4PGA_TOP_MODULE", W(top)),
           Binding("F4PGA_VERILOG_FILES",
                   Join(NamesOfType(src_files, {"verilogSource"}), " ")),
           Binding("F4PGA_TIMING_CONSTRAINT_FILES",
                   Join(NamesOfType(src_files, {"SDC"}), " ")),
           Binding("F4PGA_PIN_CONSTRAINT_FILES",
                   Join(NamesOfType(src_files, {"PCF"}), " ")),
           Binding("F4PGA_PLACE_CONSTRAINT_FILES",
                   Join(NamesOfType(src_files, {"xdc"}), " ")),
           Binding("F4PGA_DEVICE_TYPE", r.bitstream_device),
           Binding("F4PGA_PART_NAME", r.partname),
           Binding("F4PGA_DEVICE_NAME",
                   VprPart(tool_options) \o s_underscore \o VprDeviceSuffix(tool_options)),
           Binding("F4PGA_EBLIF_NAME", <<top, ".eblif">>),
           Binding("F4PGA_NET_NAME", <<top, ".net">>),
           Binding("F4PGA_PLACE_NAME", <<top, ".place">>),
           Binding("F4PGA_ROUTE_NAME", <<top, ".route">>),
           Binding("F4PGA_FASM_NAME", <<top, ".fasm">>),
           Binding("F4PGA_BITSTREAM_NAME", <<top, ".bit">>),
           Binding("F4PGA_BINARY_NAME", <<top, ".bin">>),
           Binding("F4PGA_BITHEADER_NAME", <<top, ".h">>),
           Binding("F4PGA_OPENOCD_NAME", <<top, ".openocd.cfg">>),
           Binding("F4PGA_JLINK_NAME", <<top, ".jlink">>),
           Binding("F4PGA_UTILS_PATH",
                   W("${INSTALL_DIR}/${FPGA_FAM}/install/share/symbiflow/scripts/")),
           Binding("F4PGA_SYNTH_TCL_PATH",
                   get_make_var("F4PGA_UTILS_PATH") \o W("${FPGA_FAM}/synth.tcl")),
           Binding("F4PGA_CONV_TCL_PATH",
                   get_make_var("F4PGA_UTILS_PATH") \o W("${FPGA_FAM}/conv.tcl")),
           Binding("F4PGA_SPLIT_INOUTS_PATH",
                   get_make_var("F4PGA_UTILS_PATH") \o W("split_inouts.py")),
           Binding("F4PGA_DATABASE_DIR", W("$(prjxray-config)")),
           Binding("F4PGA_SYNTH_TOOL", W("yosys")),
           Binding("F4PGA_PYTHON", W("python3")),
           Binding("F4PGA_SYNTH_LOG", <<top, "_synth.log">>),
           Binding("F4PGA_SYNTH_INTERMEDIATE_1", <<top, ".json">>),
           Binding("F4PGA_SYNTH_INTERMEDIATE_2", <<top, "_io.json">>),
           Binding("F4PGA_SYNTH_ARGS_YOSYS_1",
                   W("-p \"tcl ") \o get_make_var("F4PGA_SYNTH_TCL_PATH")
                   \o W("\" -l ") \o get_make_var("F4PGA_SYNTH_LOG")
                   \o W(" ") \o get_make_var("F4PGA_VERILOG_FILES")),
           Binding("F4PGA_SYNTH_ARGS_PYTHON",
                   get_make_var("F4PGA_SPLIT_INOUTS_PATH")
                   \o W(" -i ") \o get_make_var("F4PGA_SYNTH_INTERMEDIATE_1")
                   \o W(" -o ") \o get_make_var("F4PGA_SYNTH_INTERMEDIATE_2")),
           Binding("F4PGA_SYNTH_ARGS_YOSYS_2",
                   W("-p \"read_json ") \o get_make_var("F4PGA_SYNTH_INTERMEDIATE_2")
                   \o W("; tcl ") \o get_make_var("F4PGA_CONV_TCL_PATH") \o W("\"")) >>

\* Bindings of configure_vpr that give EDALIZE_PART a second time.
VprEnvVarsPartTwice(tool_options) ==
    << Binding("EDALIZE_VENDOR",
               IF "vendor" \in DOMAIN tool_options
                   THEN W(tool_options["vendor"]) ELSE None),
       Binding("EDALIZE_PART", VprPart(tool_options)),
       Binding("USE_ROI", W("FALSE")),
       Binding("EDALIZE_PART", tool_options["part"]) >>

\* Lines 356-373: the add_env_var calls of configure_vpr, in call order.
VprEnvVars(tool_options) ==
    LET top == SymToplevel
    IN  << Binding("EDALIZE_VENDOR",
                   IF "vendor" \in DOMAIN tool_options
                       THEN W(tool_options["vendor"]) ELSE None),
           Binding("EDALIZE_PART", VprPart(tool_options)),
           Binding("USE_ROI", W("FALSE")),
           Binding("TECHMAP_PATH",
                   W("${INSTALL_DIR}/${FPGA_FAM}/install/share/symbiflow/techmaps/xc7_vpr/techmap")),
           Binding("OUT_SDC", <<top, ".sdc">>),
           Binding("TOP", get_make_var("F4PGA_TOP_MODULE")),
           Binding("INPUT_XDC_FILES", get_make_var("F4PGA_PLACE_CONSTRAINT_FILES")),
           Binding("PART_JSON",
                   W("realpath ") \o get_make_var("F4PGA_DATABASE_DIR")
                   \o W("/") \o get_make_var("F4PGA_DEVICE_TYPE")
                   \o W("/") \o get_make_var("F4PGA_PART_NAME") \o W("/part.json")),
           Binding("OUT_FASM_EXTRA", <<top, "_fasm_extra.fasm">>),
           Binding("OUT_SYNTH_V", <<top, "_synth.v">>),
           Binding("UTILS_PATH", get_make_var("F4PGA_UTILS_PATH")),
           Binding("OUT_JSON", get_make_var("F4PGA_SYNTH_INTERMEDIATE_1")),
           Binding("PYTHON3", get_make_var("F4PGA_PYTHON")) >>

\* Lines 349-353: the option lists the rules share. The jobs carry no
\* "vpr_options", so that list is empty.
VprOpts(flag, make_var, names) ==
    IF names # <<>> THEN <<W(flag), get_make_var(make_var)>> ELSE <<>>

\* Lines 390-439: the eight rules every vendor gets, in the order added.
VprCommonRules(tool_options, src_files) ==
    LET vpr_options == <<>>
        pcf_opts == VprOpts("-p", "F4PGA_PIN_CONSTRAINT_FILES",
                            NamesOfType(src_files, {"PCF"}))
        sdc_opts == VprOpts("-s", "F4PGA_TIMING_CONSTRAINT_FILES",
                            NamesOfType(src_files, {"SDC"}))
        eblif_opt == <<W("-e"), get_make_var("F4PGA_EBLIF_NAME")>>
        device_opt == <<W("-d"), get_make_var("F4PGA_DEVICE_NAME")>>
        v(name) == get_make_var(name)
    IN  << Rule(<<v("F4PGA_SYNTH_TOOL"), v("F4PGA_SYNTH_ARGS_YOSYS_1")>>,
                <<v("F4PGA_SYNTH_INTERMEDIATE_1")>>, <<v("F4PGA_VERILOG_FILES")>>),
           Rule(<<v("F4PGA_PYTHON"), v("F4PGA_SYNTH_ARGS_PYTHON")>>,
                <<v("F4PGA_SYNTH_INTERMEDIATE_2")>>, <<v("F4PGA_SYNTH_INTERMEDIATE_1")>>),
           Rule(<<v("F4PGA_SYNTH_TOOL"), v("F4PGA_SYNTH_ARGS_YOSYS_2")>>,
                <<v("F4PGA_EBLIF_NAME")>>, <<v("F4PGA_SYNTH_INTERMEDIATE_2")>>),
           Rule(<<W("symbiflow_pack")>> \o eblif_opt \o device_opt \o sdc_opts
                    \o vpr_options,
                <<v("F4PGA_NET_NAME")>>, <<v("F4PGA_EBLIF_NAME")>>),
           Rule(<<W("symbiflow_place")>> \o eblif_opt \o device_opt
                    \o <<W("-n"), v("F4PGA_NET_NAME"), W("-P"), v("F4PGA_PART_NAME")>>
                    \o sdc_opts \o pcf_opts \o vpr_options,
                <<v("F4PGA_PLACE_NAME")>>, <<v("F4PGA_NET_NAME")>>),
           Rule(<<W("symbiflow_route")>> \o eblif_opt \o device_opt \o sdc_opts
                    \o vpr_options,
                <<v("F4PGA_ROUTE_NAME")>>, <<v("F4PGA_PLACE_NAME")>>),
           Rule(<<W("symbiflow_write_fasm")>> \o eblif_opt \o device_opt \o sdc_opts
                    \o vpr_options,
                <<v("F4PGA_FASM_NAME")>>, <<v("F4PGA_ROUTE_NAME")>>),
           Rule(<<W("symbiflow_write_bitstream"), W("-d"), v("F4PGA_DEVICE_TYPE"),
                  W("-f"), v("F4PGA_FASM_NAME"),
                  W(IF Is(tool_options, "vendor", "xilinx") THEN "-p" ELSE "-P"),
                  v("F4PGA_PART_NAME"), W("-b"), v("F4PGA_BITSTREAM_NAME")>>,
                <<v("F4PGA_BITSTREAM_NAME")>>, <<v("F4PGA_FASM_NAME")>>) >>

\* A quicklogic rule that waits for the binary instead of the bitstream.
VprWriteRuleFromBinary(tool, make_var) ==
    Rule(<<W(tool), get_make_var("F4PGA_BINARY_NAME"), get_make_var(make_var)>>,
         <<get_make_var(make_var)>>, <<get_make_var("F4PGA_BINARY_NAME")>>)

\* Lines 442-468: one rule of the vendor quicklogic, from the bitstream.
VprWriteRule(tool, make_var) ==
    Rule(<<W(tool), get_make_var("F4PGA_BITSTREAM_NAME"), get_make_var(make_var)>>,
         <<get_make_var(make_var)>>, <<get_make_var("F4PGA_BITSTREAM_NAME")>>)

\* Lines 441-468: the four rules only the vendor quicklogic gets.
VprQuicklogicRules ==
    << VprWriteRule("symbiflow_write_binary", "F4PGA_BINARY_NAME"),
       VprWriteRule("symbiflow_write_bitheader", "F4PGA_BITHEADER_NAME"),
       VprWriteRule("symbiflow_write_openocd", "F4PGA_OPENOCD_NAME"),
       VprWriteRule("symbiflow_write_jlink", "F4PGA_JLINK_NAME") >>

\* Lines 390-468: every commands.add of configure_vpr, in the order added.
VprRules(tool_options, src_files) ==
    VprCommonRules(tool_options, src_files)
    \o (IF Is(tool_options, "vendor", "quicklogic") THEN VprQuicklogicRules ELSE <<>>)

\* Lines 470-481: set_default_target; three names in one str for the vendor
\* quicklogic, the bitstream rule's target for any other.
VprDefaultTarget(tool_options) ==
    IF Is(tool_options, "vendor", "quicklogic")
    THEN <<SymToplevel, ".bin", " ", SymToplevel, ".h", " ",
           SymToplevel, ".openocd.cfg">>
    ELSE get_make_var("F4PGA_BITSTREAM_NAME")

\* Lines 299-481: the EdaCommands object configure_vpr hands to write().
VprCommands(tool_options, src_files) ==
    [header |-> EdaCommands.header,
     make_vars |-> VprMakeVars(tool_options, src_files),
     env_vars |-> VprEnvVars(tool_options),
     commands |-> VprRules(tool_options, src_files),
     default_target |-> VprDefaultTarget(tool_options)]

\* yosys.commands after yosys.configure() (line 114, read at line 185): the
\* synthesis rule, which makes <name>.json from the Yosys script.
YosysCommands ==
    << Rule(<<W("yosys"), W("-l"), W("yosys.log"), W("-p"),
              W("'tcl edalize_yosys_template.tcl'")>>,
            <<<<SymName, ".json">>>>, <<W("edalize_yosys_template.tcl")>>) >>

\* Lines 131-135: target_family is the first family found in the part, None
\* when the loop ends without a break.
RECURSIVE TargetFamily(_, _)
TargetFamily(families, part) ==
    IF families = <<>> THEN None
    ELSE IF Contains(Head(families), part) THEN Head(families)
    ELSE TargetFamily(Tail(families), part)

\* Lines 132-135: the loop variable after the loop: the family at the break,
\* the last family of the list when no break happened.
LoopFamily(families, part) ==
    IF TargetFamily(families, part) # None THEN TargetFamily(families, part)
    ELSE families[Len(families)]

\* Lines 148-156: the name of the last file of the type, None without one.
LastOfType(src_files, type) ==
    LET names == NamesOfType(src_files, {type})
    IN  IF names = <<>> THEN None ELSE W(names[Len(names)])

\* Lines 180-182
RECURSIVE Xdcs(_)
Xdcs(placement_constraints) ==
    IF placement_constraints = <<>> THEN <<>>
    ELSE <<W("--xdc"), W(Head(placement_constraints))>>
         \o Xdcs(Tail(placement_constraints))

\* A header without the guard.
NoInterchangeGuard == <<>>

\* Lines 187-191: the guard configure_nextpnr puts in the script header.
InterchangeGuard ==
    <<"ifndef INTERCHANGE_SCHEMA_PATH",
      "$(error Environment variable INTERCHANGE_SCHEMA_PATH was not found. It should be set to <fpga-interchange-schema path>/interchange)",
      "endif", "">>

\* Lines 192-223: the three rules of the arch "fpga_interchange"; the
\* tool_options carry "part", "package" and "arch" here.
InterchangeRules(tool_options, src_files) ==
    LET name == SymName
        device == LastOfType(src_files, "device")
        chipdb == LastOfType(src_files, "bba")
        package == SplitFirst(tool_options["package"], "-")
        family == LoopFamily(fpga_interchange_families, tool_options["part"])
        nextpnr_options == s_empty
    IN  << Rule(<<W("python"), W("-m"), W("fpga_interchange.yosys_json"),
                  W("--schema_dir"), W("$(INTERCHANGE_SCHEMA_PATH)"),
                  W("--device"), device, W("--top"), W(SymToplevel),
                  <<name, ".json">>, <<name, ".netlist">>>>,
                <<<<name, ".netlist">>>>, <<<<name, ".json">>>>),
           Rule(<<<<"nextpnr-", tool_options["arch"]>>, W("--chipdb"), chipdb,
                  W("--package"), package>>
                    \o Xdcs(NamesOfType(src_files, {"xdc"}))
                    \o <<W("--netlist"), <<name, ".netlist">>,
                         W("--write"), <<name, ".routed.json">>,
                         W("--phys"), <<name, ".phys">>, nextpnr_options>>,
                <<<<name, ".phys">>>>, <<<<name, ".netlist">>>>),
           Rule(<<W("python"), W("-m"), W("fpga_interchange.fasm_generator"),
                  W("--schema_dir"), W("$(INTERCHANGE_SCHEMA_PATH)"),
                  W("--family"), family, device, <<name, ".netlist">>,
                  <<name, ".phys">>, <<name, ".fasm">>>>,
                <<<<name, ".fasm">>>>, <<<<name, ".phys">>>>) >>

\* Lines 225-233: the one rule of any other arch.
PlainNextpnrRules(tool_options, src_files) ==
    LET name == SymName
        nextpnr_options == s_empty
    IN  << Rule(<<<<"nextpnr-", tool_options["arch"]>>, W("--chipdb"),
                  LastOfType(src_files, "bba")>>
                    \o Xdcs(NamesOfType(src_files, {"xdc"}))
                    \o <<W("--json"), <<name, ".json">>,
                         W("--write"), <<name, ".routed.json">>,
                         W("--fasm"), <<name, ".fasm">>,
                         W("--log"), W("nextpnr.log"), nextpnr_options>>,
                <<<<name, ".fasm">>>>, <<<<name, ".json">>>>) >>

\* A bitstream rule that waits for the synthesis output instead of the FASM.
NextpnrBitRuleFromJson(bitstream_device, partname) ==
    Rule(<<W("symbiflow_write_bitstream"), W("-d"), bitstream_device,
           W("-f"), <<SymName, ".json">>, W("-p"), partname,
           W("-b"), <<SymName, ".bit">>>>,
         <<<<SymName, ".bit">>>>, <<<<SymName, ".json">>>>)

\* Lines 235-239: the bitstream rule.
NextpnrBitRule(bitstream_device, partname) ==
    Rule(<<W("symbiflow_write_bitstream"), W("-d"), bitstream_device,
           W("-f"), <<SymName, ".fasm">>, W("-p"), partname,
           W("-b"), <<SymName, ".bit">>>>,
         <<<<SymName, ".bit">>>>, <<<<SymName, ".fasm">>>>)

\* Lines 184-241: the EdaCommands object of configure_nextpnr when the method
\* ends: as handed to write() when it returns, as far as it was filled when
\* an exception ends it (no object before line 184).
NextpnrCommands(tool_options, src_files) ==
    LET r == configure_nextpnr(tool_options, src_files)
        started == [EdaCommands EXCEPT !.commands = YosysCommands]
    IN  IF ~{"part", "package"} \subseteq DOMAIN tool_options THEN EdaCommands
        ELSE IF "arch" \notin DOMAIN tool_options THEN started
        ELSE LET fi == tool_options["arch"] = "fpga_interchange"
                 filled ==
                     [started EXCEPT
                        !.header = IF fi THEN InterchangeGuard ELSE <<>>,
                        !.commands = @ \o (IF fi
                            THEN InterchangeRules(tool_options, src_files)
                            ELSE PlainNextpnrRules(tool_options, src_files))]
             IN  IF r.outcome = "UnboundLocalError" THEN filled
                 ELSE [filled EXCEPT
                         !.commands = @ \o <<NextpnrBitRule(r.bitstream_device, r.partname)>>,
                         !.default_target = <<SymName, ".bit">>]

\* One call of add_make_var or get_make_var, with the variable it names.
Call(op, name) == [op |-> op, name |-> name]

\* The variables an argument str was made from with get_make_var, in order.
RECURSIVE Refs(_)
Refs(text) ==
    IF Len(text) < 3 THEN <<>>
    ELSE IF IsReferenceAt(text)
    THEN <<text[2]>> \o Refs(SubSeq(text, 4, Len(text)))
    ELSE Refs(Tail(text))

\* The get_make_var calls that made a list of strs.
RECURSIVE Gets(_)
Gets(texts) ==
    IF texts = <<>> THEN <<>>
    ELSE [k \in 1..Len(Refs(Head(texts))) |-> Call("get_make_var", Refs(Head(texts))[k])]
         \o Gets(Tail(texts))

\* Lines 302-346: each add_make_var call, after the get_make_var calls that
\* make its value.
RECURSIVE MakeVarCalls(_)
MakeVarCalls(make_vars) ==
    IF make_vars = <<>> THEN <<>>
    ELSE Gets(<<Head(make_vars).value>>)
         \o <<Call("add_make_var", Head(make_vars).name)>>
         \o MakeVarCalls(Tail(make_vars))

\* Lines 351-353: pcf_opts, sdc_opts and xdc_opts read their variable when
\* the job has a file of the kind.
VprOptCalls(src_files) ==
    Gets(VprOpts("-p", "F4PGA_PIN_CONSTRAINT_FILES", NamesOfType(src_files, {"PCF"}))
         \o VprOpts("-s", "F4PGA_TIMING_CONSTRAINT_FILES", NamesOfType(src_files, {"SDC"}))
         \o VprOpts("-x", "F4PGA_PLACE_CONSTRAINT_FILES", NamesOfType(src_files, {"xdc"})))

\* Lines 356-373: the get_make_var calls in the values of the add_env_var calls.
EnvVarCalls(env_vars) == Gets([k \in 1..Len(env_vars) |-> env_vars[k].value])

\* Lines 390-468: the get_make_var calls that make the target, the
\* dependency and the command of each rule.
RECURSIVE RuleCalls(_)
RuleCalls(rules) ==
    IF rules = <<>> THEN <<>>
    ELSE Gets(Head(rules).targets \o Head(rules).depends \o Head(rules).command)
         \o RuleCalls(Tail(rules))

\* Lines 302-468: the add_make_var and get_make_var calls of a configure_vpr
\* that runs to its write(), in the order the method makes them.
VprCalls(tool_options, src_files) ==
    MakeVarCalls(VprMakeVars(tool_options, src_files))
    \o VprOptCalls(src_files)
    \o EnvVarCalls(VprEnvVars(tool_options))
    \o RuleCalls(VprRules(tool_options, src_files))

\* The calls of the branch configure_main takes; configure_nextpnr makes none,
\* and a configure_vpr ended by an exception has read no variable.
SymCalls(tool_options, src_files) ==
    IF /\ Is(tool_options, "pnr", "vtr") \/ Is(tool_options, "pnr", "vpr")
       /\ configure_vpr(tool_options, src_files).reached_write
    THEN VprCalls(tool_options, src_files)
    ELSE <<>>

\* The EdaCommands object of the branch configure_main takes; the else branch
\* and a configure_vpr ended by an exception make none.
SymCommands(tool_options, src_files) ==
    IF Is(tool_options, "pnr", "nextpnr") THEN NextpnrCommands(tool_options, src_files)
    ELSE IF /\ Is(tool_options, "pnr", "vtr") \/ Is(tool_options, "pnr", "vpr")
            /\ configure_vpr(tool_options, src_files).reached_write
    THEN VprCommands(tool_options, src_files)
    ELSE EdaCommands

\* Symbiflow.configure_main, lines 484-492: one branch per pnr value; the
\* else branch logs "Unsupported PnR tool" and the method returns.
configure_main(tool_options, src_files) ==
    IF Is(tool_options, "pnr", "nextpnr")
    THEN configure_nextpnr(tool_options, src_files)
    ELSE IF Is(tool_options, "pnr", "vtr") \/ Is(tool_options, "pnr", "vpr")
    THEN configure_vpr(tool_options, src_files)
    ELSE SymResult("returned", FALSE, FALSE, <<"pnr">>, None, None)

\* A Symbiflow object is configured once, with any job.
ConfigureMain ==
    /\ ~sym.called
    /\ \E tool_options \in SymToolOptions, src_files \in SymFileLists :
           sym' = [called |-> TRUE, tool_options |-> tool_options,
                   src_files |-> src_files,
                   result |-> configure_main(tool_options, src_files),
                   commands |-> SymCommands(tool_options, src_files),
                   calls |-> SymCalls(tool_options, src_files)]
    /\ UNCHANGED <<f4pgaVars, iseVars>>

NextSymbiflow == ConfigureMain

(***************************************************************************)
(* Ise                                                                     *)
(***************************************************************************)

\* How many source files an Ise job lists.
MaxIseFiles == 1

\* The list of line 101 with its last entry left out.
RequiredOptionsWithoutSpeed == <<"family", "device", "package">>

\* Line 101: the options configure_main requires, in the order it tests them.
RequiredOptions == <<"family", "device", "package", "speed">>

\* The first required option that is absent, or "" when all are present.
RECURSIVE FirstMissing(_, _)
FirstMissing(required, tool_options) ==
    IF required = <<>> THEN ""
    ELSE IF Head(required) \notin DOMAIN tool_options THEN Head(required)
    ELSE FirstMissing(Tail(required), tool_options)

\* The four files configure_main writes: <name>.tcl, Makefile, config.mk and
\* <name>_run.tcl.
IseFiles == {"tcl", "Makefile", "config.mk", "run_tcl"}

\* dict.update on dicts kept as sequences of <<key, value>> in insertion order.
RECURSIVE DictSet(_, _)
DictSet(d, kv) ==
    IF d = <<>> THEN <<kv>>
    ELSE IF Head(d)[1] = kv[1] THEN <<kv>> \o Tail(d)
    ELSE <<Head(d)>> \o DictSet(Tail(d), kv)

RECURSIVE DictUpdate(_, _)
DictUpdate(a, b) ==
    IF b = <<>> THEN a ELSE DictUpdate(DictSet(a, Head(b)), Tail(b))

\* k=v items of a dict, flattened: k1, v1, k2, v2, ...
RECURSIVE Items(_)
Items(d) == IF d = <<>> THEN <<>> ELSE Head(d) \o Items(Tail(d))

\* Lines 116-124: the Tcl template filled in.
TclHeaderLines(job) ==
    << <<"TCL_FILE_TEMPLATE", job.name, job.tool_options["family"],
         job.tool_options["device"], job.tool_options["package"],
         job.tool_options["speed"]>> >>

\* Lines 126-137
TclDefineLines(job) ==
    IF job.vlogdefine # <<>>
    THEN << <<"project set Verilog Macros">> \o Items(job.vlogdefine) >>
    ELSE <<>>

\* Lines 139-152
TclParamLines(job) ==
    IF job.vlogparam # <<>> \/ job.generic # <<>>
    THEN << <<"project set Generics, Parameters">>
            \o Items(DictUpdate(job.vlogparam, job.generic)) >>
    ELSE <<>>

\* Lines 158-163
TclIncdirLines(job) ==
    IF job.incdirs # <<>>
    THEN << <<"project set Verilog Include Directories">> \o job.incdirs >>
    ELSE <<>>

\* A _libraries list that no library is ever appended to.
LibrariesForgotten(src_files, n) == <<>>

\* _libraries after the first n files (lines 165, 176-179).
RECURSIVE Libraries(_, _)
Libraries(src_files, n) ==
    IF n = 0 THEN <<>>
    ELSE LET libs == Libraries(src_files, n - 1)
             f == src_files[n]
         IN  IF /\ f.file_type \in {"vhdlSource", "vhdlSource-2008"}
                /\ f.logical_name # ""
                /\ ~\E i \in 1..Len(libs) : libs[i] = f.logical_name
             THEN Append(libs, f.logical_name)
             ELSE libs

\* Lines 166-185: what one turn of the loop writes for file f when the
\* libraries seen so far are libs.
TclFileLines(f, libs) ==
    IF f.file_type = "tclSource" THEN << <<"source", f.name>> >>
    ELSE IF f.file_type \in {"verilogSource", "verilogSource-2005"}
        THEN << <<"xfile add", f.name>> >>
    ELSE IF f.file_type = "UCF" THEN << <<"xfile_add_exist_ok", f.name>> >>
    ELSE IF f.file_type = "BMM" THEN << <<"xfile add", f.name>> >>
    ELSE IF f.file_type \in {"vhdlSource", "vhdlSource-2008"}
        THEN IF f.logical_name # ""
             THEN (IF \E i \in 1..Len(libs) : libs[i] = f.logical_name
                      THEN <<>> ELSE << <<"lib_vhdl new", f.logical_name>> >>)
                  \o << <<"xfile add", f.name, "-lib_vhdl", f.logical_name>> >>
             ELSE << <<"xfile add", f.name>> >>
    ELSE <<>>

\* Line 187
TclTopLines(job) == << <<"project set top", job.toplevel>> >>

RECURSIVE TclAllFileLines(_, _)
TclAllFileLines(src_files, n) ==
    IF n = 0 THEN <<>>
    ELSE TclAllFileLines(src_files, n - 1)
         \o TclFileLines(src_files[n], Libraries(src_files, n - 1))

MakefileLines == << <<"MAKEFILE_TEMPLATE">> >>
ConfigNameLines(job) == << <<"NAME     :=", job.name>> >>
ConfigTopLines(job) == << <<"TOPLEVEL :=", job.toplevel>> >>
RunTclLines == << <<"TCL_RUN_FILE_TEMPLATE">> >>

\* The work root after configure_main(job) ran to its end.
IseOutput(job) ==
    [f \in IseFiles |->
        IF f = "tcl" THEN TclHeaderLines(job) \o TclDefineLines(job)
                          \o TclParamLines(job) \o TclIncdirLines(job)
                          \o TclAllFileLines(job.src_files, Len(job.src_files))
                          \o TclTopLines(job)
        ELSE IF f = "Makefile" THEN MakefileLines
        ELSE IF f = "config.mk" THEN ConfigNameLines(job) \o ConfigTopLines(job)
        ELSE RunTclLines]

\* The jobs Ise is configured with.
IseOptionValues ==
    [family |-> "spartan6", device |-> "xc6slx45", package |-> "csg324", speed |-> "-2"]

IseToolOptions == {[k \in D |-> IseOptionValues[k]] : D \in SUBSET DOMAIN IseOptionValues}

IseSourceFiles ==
    {[name |-> "top.v", file_type |-> "verilogSource", logical_name |-> ""],
     [name |-> "pkg.vhd", file_type |-> "vhdlSource", logical_name |-> "work_lib"],
     [name |-> "core.vhd", file_type |-> "vhdlSource", logical_name |-> ""],
     [name |-> "notes.txt", file_type |-> "user", logical_name |-> ""]}

IseFileLists == UNION {[1..n -> IseSourceFiles] : n \in 0..MaxIseFiles}

IseParams ==
    {[vlogdefine |-> <<>>, vlogparam |-> <<>>, generic |-> <<>>, incdirs |-> <<>>],
     [vlogdefine |-> << <<"DEBUG", "1">> >>, vlogparam |-> <<>>, generic |-> <<>>,
      incdirs |-> <<"include">>],
     [vlogdefine |-> <<>>, vlogparam |-> << <<"WIDTH", "8">> >>,
      generic |-> << <<"WIDTH", "16">>, <<"DEPTH", "4">> >>, incdirs |-> <<>>]}

IseJob(tool_options, params, src_files) ==
    [name |-> "design", toplevel |-> "top", tool_options |-> tool_options,
     vlogdefine |-> params.vlogdefine, vlogparam |-> params.vlogparam,
     generic |-> params.generic, incdirs |-> params.incdirs, src_files |-> src_files]

IseJobs ==
    {IseJob(o, p, l) : o \in IseToolOptions, p \in IseParams, l \in IseFileLists}

\* The file that is open at each statement, "" when none is.
IseOpenFile(at) ==
    IF at \in {"tcl_header", "tcl_defines", "tcl_params", "tcl_incdirs", "tcl_files",
               "tcl_top", "tcl_close"} THEN "tcl"
    ELSE IF at \in {"mk_write", "mk_close"} THEN "Makefile"
    ELSE IF at \in {"cfg_name", "cfg_top", "cfg_close"} THEN "config.mk"
    ELSE IF at \in {"run_write", "run_close"} THEN "run_tcl"
    ELSE ""

\* open(path, "w"): the file exists and is empty from here on.
Truncate(d, file) == [f \in DOMAIN d \cup {file} |-> IF f = file THEN <<>> ELSE d[f]]

\* What has reached the file when lines have been written to it.
Store(d, file, lines) == [f \in DOMAIN d \cup {file} |-> IF f = file THEN lines ELSE d[f]]

IseOpen(at, file, then) ==
    /\ pc = at
    /\ disk' = Truncate(disk, file)
    /\ buf' = <<>>
    /\ pc' = then
    /\ UNCHANGED <<ise, prev, idx, f4pgaVars, symVars>>

IseWrite(at, lines, then) ==
    /\ pc = at
    /\ buf' = buf \o lines
    /\ pc' = then
    /\ UNCHANGED <<ise, disk, prev, idx, f4pgaVars, symVars>>

IseClose(at, file, then) ==
    /\ pc = at
    /\ disk' = Store(disk, file, buf)
    /\ buf' = <<>>
    /\ pc' = then
    /\ UNCHANGED <<ise, prev, idx, f4pgaVars, symVars>>

\* An earlier configure_main(job) that ran to its end in this work root.
IsePreviousRun(job) ==
    /\ pc = "idle"
    /\ disk = <<>>
    /\ DOMAIN job.tool_options = DOMAIN IseOptionValues
    /\ disk' = IseOutput(job)
    /\ UNCHANGED <<pc, ise, buf, prev, idx, f4pgaVars, symVars>>

\* configure_main is called.
IseCall(job) ==
    /\ pc = "idle"
    /\ pc' = "check"
    /\ ise' = job
    /\ prev' = disk
    /\ buf' = <<>>
    /\ idx' = 1
    /\ UNCHANGED <<disk, f4pgaVars, symVars>>

\* Lines 101-103
IseCheck ==
    /\ pc = "check"
    /\ pc' = IF FirstMissing(RequiredOptions, ise.tool_options) # ""
             THEN "raised" ELSE "tcl_open"
    /\ UNCHANGED <<ise, disk, buf, prev, idx, f4pgaVars, symVars>>

\* _write_tcl_file, lines 113-188
TclOpen == IseOpen("tcl_open", "tcl", "tcl_header")
TclHeader == IseWrite("tcl_header", TclHeaderLines(ise), "tcl_defines")
TclDefines == IseWrite("tcl_defines", TclDefineLines(ise), "tcl_params")
TclParams == IseWrite("tcl_params", TclParamLines(ise), "tcl_incdirs")
TclIncdirs == IseWrite("tcl_incdirs", TclIncdirLines(ise), "tcl_files")

TclFile ==
    /\ pc = "tcl_files"
    /\ idx <= Len(ise.src_files)
    /\ buf' = buf \o TclFileLines(ise.src_files[idx], Libraries(ise.src_files, idx - 1))
    /\ idx' = idx + 1
    /\ UNCHANGED <<pc, ise, disk, prev, f4pgaVars, symVars>>

TclFilesDone ==
    /\ pc = "tcl_files"
    /\ idx > Len(ise.src_files)
    /\ pc' = "tcl_top"
    /\ UNCHANGED <<ise, disk, buf, prev, idx, f4pgaVars, symVars>>

TclTop == IseWrite("tcl_top", TclTopLines(ise), "tcl_close")
TclClose == IseClose("tcl_close", "tcl", "mk_open")

\* Lines 105-111
MkOpen == IseOpen("mk_open", "Makefile", "mk_write")
MkWrite == IseWrite("mk_write", MakefileLines, "mk_close")
MkClose == IseClose("mk_close", "Makefile", "cfg_open")
CfgOpen == IseOpen("cfg_open", "config.mk", "cfg_name")
CfgName == IseWrite("cfg_name", ConfigNameLines(ise), "cfg_top")
CfgTop == IseWrite("cfg_top", ConfigTopLines(ise), "cfg_close")
CfgClose == IseClose("cfg_close", "config.mk", "run_open")
RunOpen == IseOpen("run_open", "run_tcl", "run_write")
RunWrite == IseWrite("run_write", RunTclLines, "run_close")
RunClose == IseClose("run_close", "run_tcl", "done")

\* The process is interrupted (killed, or an exception is delivered) between
\* two statements. Of the lines written to the open file, those that had left
\* the buffer are in the file: any prefix of them.
IseInterrupt ==
    /\ pc \notin {"idle", "raised", "done", "interrupted"}
    /\ pc' = "interrupted"
    /\ IF IseOpenFile(pc) = "" THEN disk' = disk
       ELSE \E n \in 0..Len(buf) : disk' = Store(disk, IseOpenFile(pc), SubSeq(buf, 1, n))
    /\ buf' = <<>>
    /\ UNCHANGED <<ise, prev, idx, f4pgaVars, symVars>>

NextIse ==
    \/ \E job \in IseJobs : IsePreviousRun(job)
    \/ \E job \in IseJobs : IseCall(job)
    \/ IseCheck
    \/ TclOpen \/ TclHeader \/ TclDefines \/ TclParams \/ TclIncdirs
    \/ TclFile \/ TclFilesDone \/ TclTop \/ TclClose
    \/ MkOpen \/ MkWrite \/ MkClose
    \/ CfgOpen \/ CfgName \/ CfgTop \/ CfgClose
    \/ RunOpen \/ RunWrite \/ RunClose
    \/ IseInterrupt

\* The longest file list of a job whose Tcl script is written in one step.
MaxTclFiles == 3

\* Files of two VHDL libraries, of none, and a Verilog file; a list may take
\* any of them any number of times, in any order.
TclSourceFiles ==
    {[name |-> "pkg.vhd", file_type |-> "vhdlSource", logical_name |-> "work_lib"],
     [name |-> "alu.vhd", file_type |-> "vhdlSource-2008", logical_name |-> "work_lib"],
     [name |-> "uart.vhd", file_type |-> "vhdlSource", logical_name |-> "util_lib"],
     [name |-> "core.vhd", file_type |-> "vhdlSource", logical_name |-> ""],
     [name |-> "top.v", file_type |-> "verilogSource", logical_name |-> ""]}

TclFileLists == UNION {[1..n -> TclSourceFiles] : n \in 0..MaxTclFiles}

\* Ise._write_tcl_file (lines 113-188) from open() to close() as one step,
\* for a job with every required option.
WriteTclFile(params, src_files) ==
    /\ pc = "idle"
    /\ pc' = "tcl_written"
    /\ ise' = IseJob(IseOptionValues, params, src_files)
    /\ prev' = disk
    /\ disk' = Store(disk, "tcl",
                     IseOutput(IseJob(IseOptionValues, params, src_files))["tcl"])
    /\ UNCHANGED <<buf, idx, f4pgaVars, symVars>>

NextIseTcl ==
    \E params \in IseParams, src_files \in TclFileLists : WriteTclFile(params, src_files)

(***************************************************************************)
(* Specifications                                                          *)
(***************************************************************************)

Init ==
    /\ FLOW = <<>>
    /\ builds = <<>>
    /\ sym = [called |-> FALSE]
    /\ pc = "idle"
    /\ ise = [called |-> FALSE]
    /\ disk = <<>>
    /\ buf = <<>>
    /\ prev = <<>>
    /\ idx = 1

SpecF4pga == Init /\ [][NextF4pga]_vars
SpecSymbiflow == Init /\ [][NextSymbiflow]_vars
SpecIse == Init /\ [][NextIse]_vars
SpecIseTcl == Init /\ [][NextIseTcl]_vars

\* A process that uses one back end: F4pga builds, or one Symbiflow object.
NextOneTool ==
    \/ builds = <<>> /\ ConfigureMain
    \/ ~sym.called /\ NextF4pga

SpecOneTool == Init /\ [][NextOneTool]_vars

(***************************************************************************)
(* Claims                                                                  *)
(***************************************************************************)

Last(seq) == seq[Len(seq)]
Constructed(b) == b.outcome = "Edaflow.__init__"
ValidPnr == {"vpr", "nextpnr"}

\* C1 (as stated): for every option key present both in the job's
\* flow_options and in the board-database entry of the selected board, the
\* resolved value after construction is the job's value.
C1_JobWinsOverDatabase ==
    \A i \in 1..Len(builds) :
        Constructed(builds[i]) =>
            \A k \in DOMAIN builds[i].edam \cap DOMAIN board_db[builds[i].edam["board"]] :
                builds[i].flow_options[k] = builds[i].edam[k]

\* C1 (amended): for every option key present both in the job's flow_options
\* and in the board-database entry of the selected board, the resolved value
\* after construction is the database's value (the database wins).
C1_DatabaseWinsOverJob ==
    \A i \in 1..Len(builds) :
        Constructed(builds[i]) =>
            LET entry == board_db[builds[i].edam["board"]]
            IN  \A k \in DOMAIN builds[i].edam \cap DOMAIN entry :
                    builds[i].flow_options[k] = entry[k]

\* C1 witness: a construction that succeeded for a job whose part differs
\* from the part of its board's database entry.
C1_Witness ==
    \E i \in 1..Len(builds) :
        /\ Constructed(builds[i])
        /\ "part" \in DOMAIN builds[i].edam
        /\ builds[i].edam["part"] # board_db[builds[i].edam["board"]]["part"]

\* C2: after any sequence of constructions, F4pga.FLOW holds exactly two
\* entries, the synthesis stage and the place-and-route stage of the most
\* recent build's pnr.
C2_FlowHoldsOnlyLastBuild ==
    builds # <<>> =>
        FLOW = <<get_synth_node(Last(builds).pnr_tool),
                 get_pnr_node(Last(builds).pnr_tool)>>

\* C3: two builds of the same job in one process see the same stage chain
\* and, when constructed, the same rules and variable bindings.
C3_SameJobSameScript ==
    \A i, j \in 1..Len(builds) :
        (i < j /\ builds[i].edam = builds[j].edam) =>
            /\ builds[i].flow = builds[j].flow
            /\ Constructed(builds[i]) => F4pgaScript(builds[i]) = F4pgaScript(builds[j])

\* C4: a construction with a pnr other than 'vpr' or 'nextpnr' adds no stage
\* to the chain, and the chain never holds a None entry.
C4_UnknownPnrAddsNoStage ==
    /\ \A i \in 1..Len(builds) :
           builds[i].pnr_tool \notin ValidPnr => builds[i].flow = builds[i].flow_before
    /\ \A n \in 1..Len(FLOW) : FLOW[n] # None

\* C5: configure_main with a pnr other than 'nextpnr', 'vtr' or 'vpr'
\* (absent included) ends in an error; it never returns normally.
C5_UnsupportedPnrRaises ==
    (/\ sym.called
     /\ ~Is(sym.tool_options, "pnr", "nextpnr")
     /\ ~Is(sym.tool_options, "pnr", "vtr")
     /\ ~Is(sym.tool_options, "pnr", "vpr"))
    => sym.result.outcome # "returned"

\* C6: whenever configure_nextpnr or configure_vpr reaches the Makefile
\* write, arch is 'xilinx' or 'fpga_interchange' (nextpnr), vendor is
\* 'xilinx' or 'quicklogic' (vpr), and the device type handed to the
\* bitstream writer is a non-empty value.
C6_MakefileOnlyForRecognised ==
    (sym.called /\ sym.result.reached_write) =>
        /\ Is(sym.tool_options, "pnr", "nextpnr") =>
               ("arch" \in DOMAIN sym.tool_options /\ sym.tool_options["arch"] \in archs)
        /\ ~Is(sym.tool_options, "pnr", "nextpnr") =>
               (Is(sym.tool_options, "vendor", "xilinx")
                \/ Is(sym.tool_options, "vendor", "quicklogic"))
        /\ sym.result.bitstream_device # s_empty
        /\ sym.result.bitstream_device # None

\* C7: when 'part' or 'package' is absent, configure_vpr and
\* configure_nextpnr end in an error and the Makefile write is not reached,
\* for every vendor and every arch.
C7_MissingPartOrPackageRaises ==
    (/\ sym.called
     /\ \/ Is(sym.tool_options, "pnr", "nextpnr")
        \/ Is(sym.tool_options, "pnr", "vtr")
        \/ Is(sym.tool_options, "pnr", "vpr")
     /\ \/ "part" \notin DOMAIN sym.tool_options
        \/ "package" \notin DOMAIN sym.tool_options)
    => (sym.result.outcome # "returned" /\ ~sym.result.reached_write)

\* C8: when one of family, device, package, speed is absent, configure_main
\* goes from its check to the raise and nowhere else, and every file of the
\* work root is as it was when configure_main was called.
C8_MissingOptionRaisesBeforeWrite ==
    (/\ pc # "idle"
     /\ \E k \in {"family", "device", "package", "speed"} : k \notin DOMAIN ise.tool_options)
    => (pc \in {"check", "raised", "interrupted"} /\ disk = prev)

\* C8 witness: configure_main has raised for a job that lacks only speed,
\* over a work root that held all four files.
C8_Witness ==
    /\ pc = "raised"
    /\ DOMAIN ise.tool_options = {"family", "device", "package"}
    /\ DOMAIN prev = IseFiles

\* C9: a construction rejected for its board leaves F4pga.FLOW as it was
\* before the call.
C9_RejectedBuildLeavesFlow ==
    \A i \in 1..Len(builds) :
        builds[i].outcome = "RuntimeError" => builds[i].flow = builds[i].flow_before

\* C10: when a reconfiguration over a work root that holds all four files is
\* interrupted, every file holds its complete previous content or its
\* complete new content.
C10_InterruptedRewriteIsAtomic ==
    (pc = "interrupted" /\ DOMAIN prev = IseFiles) =>
        \A f \in IseFiles :
            /\ f \in DOMAIN disk
            /\ \/ disk[f] = prev[f]
               \/ /\ FirstMissing(RequiredOptions, ise.tool_options) = ""
                  /\ disk[f] = IseOutput(ise)[f]

(***************************************************************************)
(* The script of a Symbiflow run                                           *)
(***************************************************************************)

\* configure_vpr has run to its write() for the job in sym.
VprRun ==
    /\ sym.called
    /\ Is(sym.tool_options, "pnr", "vtr") \/ Is(sym.tool_options, "pnr", "vpr")
    /\ sym.result.reached_write

\* configure_nextpnr has run to its write() for the job in sym.
NextpnrRun ==
    /\ sym.called
    /\ Is(sym.tool_options, "pnr", "nextpnr")
    /\ sym.result.reached_write

\* The names make reads in a str of the script: a reference stands for the
\* value bound to its variable, and a blank separates two names.
IsReference(text) == Len(text) = 3 /\ text[1] = "$(" /\ text[3] = ")"

Expand(text, make_vars) ==
    IF IsReference(text) /\ \E i \in 1..Len(make_vars) : make_vars[i].name = text[2]
    THEN make_vars[CHOOSE i \in 1..Len(make_vars) :
                       /\ make_vars[i].name = text[2]
                       /\ \A j \in (i + 1)..Len(make_vars) : make_vars[j].name # text[2]].value
    ELSE text

RECURSIVE Words(_)
Words(text) ==
    IF text = <<>> THEN {}
    ELSE LET n == IF \E i \in 1..Len(text) : text[i] = " "
                  THEN (CHOOSE i \in 1..Len(text) :
                            text[i] = " " /\ \A j \in 1..(i - 1) : text[j] # " ") - 1
                  ELSE Len(text)
         IN  (IF n = 0 THEN {} ELSE {SubSeq(text, 1, n)})
             \cup Words(SubSeq(text, n + 2, Len(text)))

\* The names a rule makes and the names it waits for.
TargetsOf(rule, make_vars) ==
    {Expand(rule.targets[k], make_vars) : k \in 1..Len(rule.targets)}
DependsOf(rule, make_vars) ==
    {Expand(rule.depends[k], make_vars) : k \in 1..Len(rule.depends)}

\* C11: in the rule list of configure_vpr, for vendor xilinx and for vendor
\* quicklogic, every dependency of a rule is the Verilog source list of the
\* job or the target of exactly one rule added earlier.
C11_VprNoDanglingDependency ==
    (VprRun /\ (Is(sym.tool_options, "vendor", "xilinx")
                \/ Is(sym.tool_options, "vendor", "quicklogic"))) =>
        LET c == sym.commands
            sources == Join(NamesOfType(sym.src_files, {"verilogSource"}), " ")
        IN  \A i \in 1..Len(c.commands) :
                \A d \in DependsOf(c.commands[i], c.make_vars) :
                    \/ d = sources
                    \/ Cardinality({j \in 1..(i - 1) :
                           d \in TargetsOf(c.commands[j], c.make_vars)}) = 1

\* C11 witness: a quicklogic job with a Verilog source went through
\* configure_vpr, which added its twelve rules.
C11_Witness ==
    /\ VprRun
    /\ Is(sym.tool_options, "vendor", "quicklogic")
    /\ NamesOfType(sym.src_files, {"verilogSource"}) # <<>>
    /\ Len(sym.commands.commands) = Len(VprCommonRules(sym.tool_options, sym.src_files)) + Len(VprQuicklogicRules)

\* The rules configure_nextpnr added itself: those after the synthesis rules
\* it took over from the synthesis sub-tool.
OwnNextpnrRules ==
    SubSeq(sym.commands.commands, Len(YosysCommands) + 1, Len(sym.commands.commands))

\* rules is a chain from the file first: one target per rule, as listed in
\* exts, each rule waiting for the target of the rule before it and the
\* first rule for first.
IsChain(rules, first, exts) ==
    /\ Len(rules) = Len(exts)
    /\ \A k \in 1..Len(rules) :
           /\ rules[k].targets = <<<<SymName, exts[k]>>>>
           /\ rules[k].depends = IF k = 1 THEN <<first>> ELSE rules[k - 1].targets

\* C12: a configure_nextpnr that returns has put its rules after the
\* synthesis rules, as a chain from <name>.json in which each rule depends on
\* the target of the rule before it: .netlist, .phys, .fasm, .bit for arch
\* "fpga_interchange", .fasm, .bit for any other arch; the default target is
\* <name>.bit.
C12_NextpnrChainByArch ==
    NextpnrRun =>
        /\ SubSeq(sym.commands.commands, 1, Len(YosysCommands)) = YosysCommands
        /\ IsChain(OwnNextpnrRules, <<SymName, ".json">>,
                   IF sym.tool_options["arch"] = "fpga_interchange"
                       THEN <<".netlist", ".phys", ".fasm", ".bit">>
                       ELSE <<".fasm", ".bit">>)
        /\ sym.commands.default_target = <<SymName, ".bit">>

\* C12 witness: a job with arch "fpga_interchange" went through
\* configure_nextpnr, which added four rules and returned.
C12_Witness ==
    /\ NextpnrRun
    /\ sym.tool_options["arch"] = "fpga_interchange"
    /\ Len(OwnNextpnrRules) = Len(InterchangeRules(sym.tool_options, sym.src_files)) + 1

(***************************************************************************)
(* The script of an F4pga build                                            *)
(***************************************************************************)

\* the elements of a list
Elems(seq) == {seq[k] : k \in 1..Len(seq)}

\* C13 (as stated): the "run" rule of a constructed build lists the default
\* target, ${BITSTREAM_FILE}, among its dependencies.
C13_RunListsDefaultTarget ==
    \A i \in 1..Len(builds) :
        Constructed(builds[i]) =>
            F4pgaScript(builds[i]).default_target
                \in Elems(F4pgaScript(builds[i]).run.depends)

\* C13 (amended): the "run" rule of a constructed build lists the one
\* dependency "pre_run"; the default target, ${BITSTREAM_FILE}, is an
\* argument of its command and is not among its dependencies.
C13_RunListsPreRunOnly ==
    \A i \in 1..Len(builds) :
        Constructed(builds[i]) =>
            LET script == F4pgaScript(builds[i])
            IN  /\ script.run.targets = <<"run">>
                /\ script.run.depends = <<"pre_run">>
                /\ script.default_target \in Elems(script.run.command)
                /\ script.default_target \notin Elems(script.run.depends)

\* C13 witness: a build with pnr "vpr" was constructed, so its script has the
\* bitstream rule, the default target and the "run" rule.
C13_Witness ==
    \E i \in 1..Len(builds) :
        /\ Constructed(builds[i])
        /\ builds[i].pnr_tool = "vpr"
        /\ \E k \in 1..Len(F4pgaScript(builds[i]).rules) :
               F4pgaScript(builds[i]).rules[k].targets
                   = <<F4pgaScript(builds[i]).default_target>>

(***************************************************************************)
(* Bindings                                                                *)
(***************************************************************************)

NoRepeat(seq) == \A i, j \in 1..Len(seq) : i # j => seq[i] # seq[j]

\* C14: no name is bound twice in one run: the names configure_tools of a
\* constructed F4pga build with pnr "vpr" or "nextpnr" passes to add_env_var
\* are pairwise distinct (it calls add_make_var for none), and so are the
\* names configure_vpr passes to add_env_var and those it passes to
\* add_make_var, for any vendor.
C14_BindingNamesUnique ==
    /\ \A i \in 1..Len(builds) :
           (Constructed(builds[i]) /\ builds[i].pnr_tool \in ValidPnr) =>
               LET env_vars == F4pgaScript(builds[i]).env_vars
               IN  NoRepeat([k \in 1..Len(env_vars) |-> env_vars[k][1]])
    /\ VprRun =>
           /\ NoRepeat([k \in 1..Len(sym.commands.env_vars) |->
                           sym.commands.env_vars[k].name])
           /\ NoRepeat([k \in 1..Len(sym.commands.make_vars) |->
                           sym.commands.make_vars[k].name])

\* C14 witness: configure_vpr has bound its execution-time and its
\* generation-time variables for a job of vendor xilinx.
C14_Witness ==
    /\ VprRun
    /\ Is(sym.tool_options, "vendor", "xilinx")
    /\ Len(sym.commands.env_vars) > 1
    /\ Len(sym.commands.make_vars) > 1

\* C15: after a construction, successful or rejected, the flow_options
\* mapping inside the caller's edam has the keys and values it had before.
C15_CallerFlowOptionsUnchanged ==
    \A i \in 1..Len(builds) : builds[i].edam_after = builds[i].edam

(***************************************************************************)
(* configure_nextpnr                                                       *)
(***************************************************************************)

\* The script header holds the guard that stops the build when
\* INTERCHANGE_SCHEMA_PATH is unset.
HasSchemaGuard(c) == "ifndef INTERCHANGE_SCHEMA_PATH" \in Elems(c.header)

\* Some command of the script refers to $(INTERCHANGE_SCHEMA_PATH).
RefersToSchemaPath(c) ==
    \E k \in 1..Len(c.commands) :
        W("$(INTERCHANGE_SCHEMA_PATH)") \in Elems(c.commands[k].command)

\* C16: in the script a configure_nextpnr writes, the header guard on
\* INTERCHANGE_SCHEMA_PATH is there exactly when some command refers to
\* $(INTERCHANGE_SCHEMA_PATH): both for arch "fpga_interchange", neither for
\* any other arch.
C16_SchemaGuardIffSchemaUse ==
    NextpnrRun =>
        LET fi == sym.tool_options["arch"] = "fpga_interchange"
        IN  /\ HasSchemaGuard(sym.commands) <=> fi
            /\ RefersToSchemaPath(sym.commands) <=> fi

\* C16 witness: configure_nextpnr wrote the script of a job with arch
\* "fpga_interchange" that lists a device file, with the guard in its header.
C16_Witness ==
    /\ NextpnrRun
    /\ sym.tool_options["arch"] = "fpga_interchange"
    /\ NamesOfType(sym.src_files, {"device"}) # <<>>
    /\ HasSchemaGuard(sym.commands)

\* C17: a job that fails one of configure_nextpnr's checks of arch, package,
\* part, chipdb file or XDC files has had no stage configured (the synthesis
\* sub-tool was not configured) and no file touched (the Makefile write was
\* not reached).
C17_NextpnrChecksBeforeSideEffects ==
    (/\ sym.called
     /\ Is(sym.tool_options, "pnr", "nextpnr")
     /\ Elems(sym.result.errors) \cap {"arch", "package", "part", "chipdb", "xdc"} # {})
    => (~sym.result.yosys_configured /\ ~sym.result.reached_write)

(***************************************************************************)
(* What the default build of a configure_vpr script runs                   *)
(***************************************************************************)

\* The file names a rule makes and waits for, as make reads them.
TargetNames(rule, make_vars) == UNION {Words(t) : t \in TargetsOf(rule, make_vars)}
DependNames(rule, make_vars) == UNION {Words(d) : d \in DependsOf(rule, make_vars)}

\* The names the build of names needs: names, and the dependencies of every
\* rule that makes a needed name.
RECURSIVE Needed(_, _)
Needed(names, c) ==
    LET more == names \cup UNION {DependNames(c.commands[k], c.make_vars) :
                    k \in {n \in 1..Len(c.commands) :
                              TargetNames(c.commands[n], c.make_vars) \cap names # {}}}
    IN  IF more = names THEN names ELSE Needed(more, c)

\* The names the default build needs.
DefaultBuild(c) == Needed(Words(Expand(c.default_target, c.make_vars)), c)

\* C18: for vendor xilinx and for vendor quicklogic, every rule configure_vpr
\* added makes a name that the default target names or that is reached from
\* the default target along rule dependencies.
C18_VprEveryRuleNeeded ==
    (VprRun /\ (Is(sym.tool_options, "vendor", "xilinx")
                \/ Is(sym.tool_options, "vendor", "quicklogic"))) =>
        \A k \in 1..Len(sym.commands.commands) :
            TargetNames(sym.commands.commands[k], sym.commands.make_vars)
                \cap DefaultBuild(sym.commands) # {}

\* C19: in a configure_nextpnr with arch "fpga_interchange", the value that
\* follows "--family" in a command is target_family, the family matched
\* against the part; for a part in which no family occurs that value is no
\* family name.
C19_FamilyArgumentIsTargetFamily ==
    (/\ sym.called
     /\ Is(sym.tool_options, "pnr", "nextpnr")
     /\ Is(sym.tool_options, "arch", "fpga_interchange")
     /\ "part" \in DOMAIN sym.tool_options) =>
        \A k \in 1..Len(sym.commands.commands) :
            LET command == sym.commands.commands[k].command
            IN  \A n \in 1..(Len(command) - 1) :
                    command[n] = W("--family") =>
                        command[n + 1] = TargetFamily(fpga_interchange_families,
                                                      sym.tool_options["part"])

(***************************************************************************)
(* The Tcl script of Ise                                                   *)
(***************************************************************************)

\* The lines of the Tcl script that _write_tcl_file has written.
TclLines == disk["tcl"]

\* The VHDL library names the files of the job use.
UsedLibraries ==
    {ise.src_files[n].logical_name :
        n \in {m \in 1..Len(ise.src_files) :
                  /\ ise.src_files[m].file_type \in {"vhdlSource", "vhdlSource-2008"}
                  /\ ise.src_files[m].logical_name # ""}}

\* Where the script declares the library, and where it adds a file to it.
LibNewAt(lib) == {i \in 1..Len(TclLines) : TclLines[i] = <<"lib_vhdl new", lib>>}
LibAddAt(lib) ==
    {i \in 1..Len(TclLines) :
        /\ Len(TclLines[i]) > 2
        /\ TclLines[i][1] = "xfile add"
        /\ SubSeq(TclLines[i], 3, Len(TclLines[i])) = <<"-lib_vhdl", lib>>}

\* Where the script has a line of the file loop, and where it sets the top.
FileLineAt ==
    {i \in 1..Len(TclLines) :
        TclLines[i][1] \in {"source", "xfile add", "xfile_add_exist_ok", "lib_vhdl new"}}
TopAt == {i \in 1..Len(TclLines) : TclLines[i][1] = "project set top"}

\* C20: in the Tcl script of _write_tcl_file, every VHDL library the files
\* use is declared by exactly one "lib_vhdl new" line, which comes before
\* every "xfile add ... -lib_vhdl" line of that library, whatever the order
\* and the repetition of libraries in the file list; "project set top" is
\* written once, after every file line.
C20_LibraryDeclaredOnceBeforeUse ==
    pc = "tcl_written" =>
        /\ \A lib \in UsedLibraries :
               /\ Cardinality(LibNewAt(lib)) = 1
               /\ LibAddAt(lib) # {}
               /\ \A n \in LibNewAt(lib), a \in LibAddAt(lib) : n < a
        /\ Cardinality(TopAt) = 1
        /\ \A t \in TopAt, i \in FileLineAt : i < t

\* C20 witness: the script was written for a file list that uses one library,
\* then another, then the first again.
C20_Witness ==
    /\ pc = "tcl_written"
    /\ \E i, j, k \in 1..Len(ise.src_files) :
           /\ i < j /\ j < k
           /\ ise.src_files[i].logical_name = "work_lib"
           /\ ise.src_files[j].logical_name = "util_lib"
           /\ ise.src_files[k].logical_name = "work_lib"
    /\ LibAddAt("work_lib") # {}

(***************************************************************************)
(* Generation-time variables of configure_vpr                              *)
(***************************************************************************)

\* C21: in a configure_vpr that runs to its write(), with any vendor and with
\* SDC, PCF and XDC files present or absent in any combination, every
\* get_make_var call names a variable that an add_make_var call made earlier
\* in the run has defined.
C21_MakeVarDefinedBeforeRead ==
    VprRun =>
        \A i \in 1..Len(sym.calls) :
            sym.calls[i].op = "get_make_var" =>
                \E j \in 1..(i - 1) :
                    /\ sym.calls[j].op = "add_make_var"
                    /\ sym.calls[j].name = sym.calls[i].name

\* C21 witness: configure_vpr ran to its write() for a job with an SDC, a PCF
\* and an XDC file, and read the variables of all three.
C21_Witness ==
    /\ VprRun
    /\ \A name \in {"F4PGA_TIMING_CONSTRAINT_FILES", "F4PGA_PIN_CONSTRAINT_FILES",
                    "F4PGA_PLACE_CONSTRAINT_FILES"} :
           \E i \in 1..Len(sym.calls) :
               sym.calls[i] = Call("get_make_var", name)
    /\ NamesOfType(sym.src_files, {"SDC"}) # <<>>
    /\ NamesOfType(sym.src_files, {"PCF"}) # <<>>
    /\ NamesOfType(sym.src_files, {"xdc"}) # <<>>

\* The value add_make_var bound to the variable.
ValueOf(name) == Expand(get_make_var(name), sym.commands.make_vars)

\* C22: in a configure_vpr for vendor "xilinx", F4PGA_PART_NAME is the part
\* as given followed by the package; F4PGA_DEVICE_NAME is "xc7a50t_test" for
\* the part "xc7a35t" and the part followed by "_test" for every other part.
C22_XilinxPartAlias ==
    (VprRun /\ Is(sym.tool_options, "vendor", "xilinx")) =>
        LET part == sym.tool_options["part"]
        IN  /\ ValueOf("F4PGA_PART_NAME") = part \o sym.tool_options["package"]
            /\ ValueOf("F4PGA_DEVICE_NAME") =
                   IF part = <<"x", "c", "7", "a", "3", "5", "t">>
                   THEN <<"x", "c", "7", "a", "5", "0", "t", "_", "t", "e", "s", "t">>
                   ELSE part \o <<"_", "t", "e", "s", "t">>

\* C22 witness: configure_vpr ran to its write() for vendor "xilinx" and part
\* "xc7a35t".
C22_Witness ==
    /\ VprRun
    /\ Is(sym.tool_options, "vendor", "xilinx")
    /\ sym.tool_options["part"] = <<"x", "c", "7", "a", "3", "5", "t">>
    /\ ValueOf("F4PGA_PART_NAME") # ValueOf("F4PGA_DEVICE_NAME")

====
